---------------------------- MODULE Spec2Model ----------------------------
(***************************************************************************)
(* Replicator-dynamics integrators of the soccer-transfer models:          *)
(*   club_strategy.py   : two populations (Saudi, Europe), strategies      *)
(*                        Youth / Star, fixed 2x2 payoff table, clamped    *)
(*                        explicit Euler steps.                            *)
(*   player_strategy.py : one population (Prestige / Money), payoffs       *)
(*                        linear in the population mix, unclamped Euler.   *)
(*                                                                         *)
(* Numbers.  The scripts compute in float64.  Here a real r is the integer *)
(* round(r * Scale): a decimal fixed-point number with six fractional      *)
(* digits.  Additions and subtractions are exact; every product is rounded *)
(* to the nearest unit at the place where the float product rounds (one    *)
(* rounding per multiplication, evaluated left to right as Python does).   *)
(* 0, 1, 0.5 and the integer payoffs are exact in both arithmetics.        *)
(* Values are 32-bit integers: a magnitude up to about 2147 is              *)
(* representable, and the runs on the inputs below stay far inside that    *)
(* range (the largest factor of a product is the coefficient 20.0).        *)
(*                                                                         *)
(* An engine call runs to completion without a suspension point, so it is  *)
(* one action; its for loop is the operator SimulateLoop / SolveLoop.      *)
(***************************************************************************)
EXTENDS Integers, Sequences, FiniteSets, TLC

VARIABLES
    prog,        \* which script runs: "club" or "player"
    mode,        \* "direct": the engine is called on given params; "ui": the script with its sliders
    payoffs,     \* club_strategy.payoffs (module global)
    params,      \* the module global params dict
    sliders,     \* sliders[name].val
    traj,        \* the arrays the last engine call returned, NoTrajectory before the first call
    outcome,     \* how the last engine call ended: "none", "trajectory" or "error"
    plotted,     \* the arrays the axes show (passed to ax.plot), NoTrajectory before the first plot
    calls,       \* number of engine invocations so far
    changes,     \* number of slider changes so far
    saved,       \* trajectory of the original run, kept to compare a transformed run with it
    xform,       \* the transformation applied for the second run ("none" during the original run)
    pc           \* position of the control flow

vars == <<prog, mode, payoffs, params, sliders, traj, outcome, plotted, calls, changes,
          saved, xform, pc>>

-----------------------------------------------------------------------------
(* Arithmetic *)

\* a fixed-point number is handled as two digits to the base Half
Half == 10^3

\* resolution of the fixed-point numbers: one unit is 1/Scale
Scale == Half * Half

One == Scale

\* the real number n/m as a fixed-point number
Real(n, m) == (n * Scale) \div m

\* (p*q + Scale/2) \div Scale for p = ph*Half + pl and q = qh*Half + ql, computed from
\* the digits so that no intermediate value needs more than 32 bits:
\* p*q = ph*qh*Scale + (ph*ql + pl*qh)*Half + pl*ql
MulDigits(ph, pl, qh, ql) ==
    ph * qh + (ph * ql + pl * qh) \div Half
    + (((ph * ql + pl * qh) % Half) * Half + pl * ql + Scale \div 2) \div Scale

\* float product p*q, rounded to the nearest unit
Mul(p, q) ==
    MulDigits(p \div Half, p % Half, q \div Half, q % Half)

\* float quotient p/n for an integer count n, rounded to the nearest unit
DivInt(p, n) == p \div n + (2 * (p % n) + n) \div (2 * n)

-----------------------------------------------------------------------------
(* numpy *)

\* number of samples of every trajectory: np.linspace(0, t_end, 1000)
NSamples == 1000

Idx == 0 .. (NSamples - 1)

\* np.zeros(len(t))
Zeros == [k \in Idx |-> 0]

\* np.linspace(0, t_end, NSamples): arange(NSamples) * (t_end / (NSamples - 1)), and the
\* last sample set to t_end
Linspace(t_end) ==
    LET step == DivInt(t_end, NSamples - 1)
    IN  [k \in Idx |-> IF k = NSamples - 1 THEN t_end ELSE k * step]

\* np.clip(v, -hi, hi): the magnitude clamped, the lower bound lo ignored
ClipMagnitude(v, lo, hi) == IF v < -hi THEN -hi ELSE IF v > hi THEN hi ELSE v

\* np.clip(v, lo, hi)
Clip(v, lo, hi) == IF v < lo THEN lo ELSE IF v > hi THEN hi ELSE v

NoTrajectory == << >>

-----------------------------------------------------------------------------
(* club_strategy.py: the engine *)

Strategies == {"Youth", "Star"}

\* a payoff table from its four (Saudi, Europe) payoff pairs, in whole numbers
Table(yy, ys, sy, ss) ==
    [k \in Strategies \X Strategies |->
        LET e == CASE k = <<"Youth", "Youth">> -> yy
                   [] k = <<"Youth", "Star">>  -> ys
                   [] k = <<"Star", "Youth">>  -> sy
                   [] OTHER                     -> ss
        IN  <<e[1] * Scale, e[2] * Scale>>]

\* the built-in table with the (Star, Star) payoffs raised to (3, 3): Star strictly
\* dominates Youth
StarDominatesPayoffs == Table(<<4, 4>>, <<2, 5>>, <<5, 2>>, <<3, 3>>)

\* the built-in table
BuiltinPayoffs == Table(<<4, 4>>, <<2, 5>>, <<5, 2>>, <<1, 1>>)

\* replicator_dynamics with the factor x (and y) of x(1-x) left out
ClubDynamicsNoX(px, py) ==
    LET saudi_youth_payoff == Mul(py, payoffs[<<"Youth", "Youth">>][1])
                              + Mul(One - py, payoffs[<<"Youth", "Star">>][1])
        saudi_star_payoff  == Mul(py, payoffs[<<"Star", "Youth">>][1])
                              + Mul(One - py, payoffs[<<"Star", "Star">>][1])
        saudi_avg          == Mul(px, saudi_youth_payoff) + Mul(One - px, saudi_star_payoff)
        euro_youth_payoff  == Mul(px, payoffs[<<"Youth", "Youth">>][2])
                              + Mul(One - px, payoffs[<<"Star", "Youth">>][2])
        euro_star_payoff   == Mul(px, payoffs[<<"Youth", "Star">>][2])
                              + Mul(One - px, payoffs[<<"Star", "Star">>][2])
        euro_avg           == Mul(py, euro_youth_payoff) + Mul(One - py, euro_star_payoff)
    IN  [dx |-> Mul(One - px, saudi_youth_payoff - saudi_avg),
         dy |-> Mul(One - py, euro_youth_payoff - euro_avg)]

\* replicator_dynamics with Europe's payoffs looked up under Saudi's key order:
\* ('Youth','Star') where the code reads ('Star','Youth') and the reverse
ClubDynamicsKeyOrder(px, py) ==
    LET saudi_youth_payoff == Mul(py, payoffs[<<"Youth", "Youth">>][1])
                              + Mul(One - py, payoffs[<<"Youth", "Star">>][1])
        saudi_star_payoff  == Mul(py, payoffs[<<"Star", "Youth">>][1])
                              + Mul(One - py, payoffs[<<"Star", "Star">>][1])
        saudi_avg          == Mul(px, saudi_youth_payoff) + Mul(One - px, saudi_star_payoff)
        euro_youth_payoff  == Mul(px, payoffs[<<"Youth", "Youth">>][2])
                              + Mul(One - px, payoffs[<<"Youth", "Star">>][2])
        euro_star_payoff   == Mul(px, payoffs[<<"Star", "Youth">>][2])
                              + Mul(One - px, payoffs[<<"Star", "Star">>][2])
        euro_avg           == Mul(py, euro_youth_payoff) + Mul(One - py, euro_star_payoff)
    IN  [dx |-> Mul(Mul(px, One - px), saudi_youth_payoff - saudi_avg),
         dy |-> Mul(Mul(py, One - py), euro_youth_payoff - euro_avg)]

\* replicator_dynamics(x, y) of the club model, reading the global table
ClubDynamics(px, py) ==
    LET saudi_youth_payoff == Mul(py, payoffs[<<"Youth", "Youth">>][1])
                              + Mul(One - py, payoffs[<<"Youth", "Star">>][1])
        saudi_star_payoff  == Mul(py, payoffs[<<"Star", "Youth">>][1])
                              + Mul(One - py, payoffs[<<"Star", "Star">>][1])
        saudi_avg          == Mul(px, saudi_youth_payoff) + Mul(One - px, saudi_star_payoff)
        euro_youth_payoff  == Mul(px, payoffs[<<"Youth", "Youth">>][2])
                              + Mul(One - px, payoffs[<<"Star", "Youth">>][2])
        euro_star_payoff   == Mul(px, payoffs[<<"Youth", "Star">>][2])
                              + Mul(One - px, payoffs[<<"Star", "Star">>][2])
        euro_avg           == Mul(py, euro_youth_payoff) + Mul(One - py, euro_star_payoff)
    IN  [dx |-> Mul(Mul(px, One - px), saudi_youth_payoff - saudi_avg),
         dy |-> Mul(Mul(py, One - py), euro_youth_payoff - euro_avg)]

\* simulate, lines 46-50: the locals before the loop (i is the loop's next index)
SimulateBegin(p) ==
    LET grid == Linspace(p.t_end)
    IN  [t  |-> grid,
         x  |-> [Zeros EXCEPT ![0] = p.x0],
         y  |-> [Zeros EXCEPT ![0] = p.y0],
         dt |-> grid[1] - grid[0],
         i  |-> 1]

\* simulate, lines 54-55: the two assignments of the loop body, r = (dx, dy)
SimulateAssign(s, r) ==
    [s EXCEPT !.x[s.i] = Clip(s.x[s.i - 1] + Mul(r.dx, s.dt), 0, One),
              !.y[s.i] = Clip(s.y[s.i - 1] + Mul(r.dy, s.dt), 0, One),
              !.i = s.i + 1]

\* simulate, lines 53-55: the body of the for loop at index s.i
SimulateStep(s) == SimulateAssign(s, ClubDynamics(s.x[s.i - 1], s.y[s.i - 1]))

\* simulate, line 52: for i in range(1, len(t)); the next n iterations, one after the
\* other (taken as two consecutive halves, which keeps the evaluation depth logarithmic)
RECURSIVE SimulateLoop(_, _)
SimulateLoop(s, n) ==
    IF s.i >= NSamples \/ n = 0 THEN s
    ELSE IF n = 1 THEN SimulateStep(s)
    ELSE SimulateLoop(SimulateLoop(s, n \div 2), n - n \div 2)

\* simulate, line 57: return t, x, y
SimulateReturn(s) == [t |-> s.t, x |-> s.x, y |-> s.y]

\* simulate(params): lines 45-57
Simulate(p) == SimulateReturn(SimulateLoop(SimulateBegin(p), NSamples - 1))

-----------------------------------------------------------------------------
(* player_strategy.py: the engine *)

\* replicator_dynamics(x, a0, d0, b, pGrow, mGrow) of the player model
PlayerDynamics(px, a0, d0, b, pGrow, mGrow) ==
    LET a  == a0 + Mul(pGrow, px)
        d  == d0 + Mul(mGrow, One - px)
        fP == Mul(a, px) + Mul(b, One - px)
        fM == Mul(b, px) + Mul(d, One - px)
    IN  [dx |-> Mul(Mul(px, One - px), fP - fM), fP |-> fP, fM |-> fM, a |-> a, d |-> d]

\* the call replicator_dynamics(x[k], **{k: params[k] for k in ['a0','d0','b','pGrow','mGrow']})
Evaluate(px, p) == PlayerDynamics(px, p.a0, p.d0, p.b, p.pGrow, p.mGrow)

\* the locals before the loop with line 33 (x[0] = params['x0']) left out
SolveBeginNoInit(p) ==
    LET grid == Linspace(p.t_end)
    IN  [t  |-> grid,
         x  |-> Zeros,
         fP |-> Zeros, fM |-> Zeros, a |-> Zeros, d |-> Zeros,
         dt |-> grid[1] - grid[0],
         i  |-> 1]

\* solve_ode, lines 30-34: the locals before the loop
SolveBegin(p) ==
    LET grid == Linspace(p.t_end)
    IN  [t  |-> grid,
         x  |-> [Zeros EXCEPT ![0] = p.x0],
         fP |-> Zeros, fM |-> Zeros, a |-> Zeros, d |-> Zeros,
         dt |-> grid[1] - grid[0],
         i  |-> 1]

\* the assignments of the loop body with x[i] = dx * dt, the term x[i-1] left out
SolveAssignNoCarry(s, r) ==
    [s EXCEPT !.fP[s.i - 1] = r.fP,
              !.fM[s.i - 1] = r.fM,
              !.a[s.i - 1] = r.a,
              !.d[s.i - 1] = r.d,
              !.x[s.i] = Mul(r.dx, s.dt),
              !.i = s.i + 1]

\* solve_ode, lines 36 and 38: the assignments of the loop body, r the tuple
\* replicator_dynamics returned
SolveAssign(s, r) ==
    [s EXCEPT !.fP[s.i - 1] = r.fP,
              !.fM[s.i - 1] = r.fM,
              !.a[s.i - 1] = r.a,
              !.d[s.i - 1] = r.d,
              !.x[s.i] = s.x[s.i - 1] + Mul(r.dx, s.dt),
              !.i = s.i + 1]

\* solve_ode, lines 36-38: the body of the for loop at index s.i
SolveStep(s, p) == SolveAssign(s, Evaluate(s.x[s.i - 1], p))

\* solve_ode, line 35: for i in range(1, len(t)); the next n iterations
RECURSIVE SolveLoop(_, _, _)
SolveLoop(s, p, n) ==
    IF s.i >= NSamples \/ n = 0 THEN s
    ELSE IF n = 1 THEN SolveStep(s, p)
    ELSE SolveLoop(SolveLoop(s, p, n \div 2), p, n - n \div 2)

\* the extra evaluation after the loop left out
SolveFinalSkipped(s, p) == s

\* solve_ode, line 40: the assignment to fP[-1], fM[-1], a[-1], d[-1]
SolveAssignLast(s, r) ==
    [s EXCEPT !.fP[NSamples - 1] = r.fP,
              !.fM[NSamples - 1] = r.fM,
              !.a[NSamples - 1] = r.a,
              !.d[NSamples - 1] = r.d]

\* solve_ode, lines 40-41: the extra evaluation at x[-1]
SolveFinal(s, p) == SolveAssignLast(s, Evaluate(s.x[NSamples - 1], p))

\* solve_ode, line 42: return t, x, fP, fM, a, d
SolveReturn(s) == [t |-> s.t, x |-> s.x, fP |-> s.fP, fM |-> s.fM, a |-> s.a, d |-> s.d]

\* solve_ode(params): lines 29-42
SolveOde(p) == SolveReturn(SolveFinal(SolveLoop(SolveBegin(p), p, NSamples - 1), p))

-----------------------------------------------------------------------------
(* The engines called directly *)

\* t, x, y = simulate(params)
CallSimulate ==
    /\ pc = "call"
    /\ prog = "club"
    /\ traj' = Simulate(params)
    /\ outcome' = "trajectory"
    /\ calls' = calls + 1
    /\ pc' = "returned"
    /\ UNCHANGED <<prog, mode, payoffs, params, sliders, plotted, changes, saved, xform>>

\* t, x, fP, fM, a, d = solve_ode(params)
CallSolveOde ==
    /\ pc = "call"
    /\ prog = "player"
    /\ traj' = SolveOde(params)
    /\ outcome' = "trajectory"
    /\ calls' = calls + 1
    /\ pc' = "returned"
    /\ UNCHANGED <<prog, mode, payoffs, params, sliders, plotted, changes, saved, xform>>

-----------------------------------------------------------------------------
(* The scripts around the engines: first plot, sliders, update callback *)

\* the params dict of club_strategy.py
ClubDefaults == [x0 |-> Real(1, 2), y0 |-> Real(1, 2), t_end |-> Real(10, 1)]

\* the params dict of player_strategy.py
PlayerDefaults ==
    [a0 |-> Real(25, 10), d0 |-> Real(2, 1), b |-> Real(14, 10), pGrow |-> Real(1, 1),
     mGrow |-> Real(5, 1), x0 |-> Real(6, 10), t_end |-> Real(10, 1)]

\* number of slider changes explored
MaxChanges == 2

\* values the sliders of club_strategy.py take (within valmin..valmax, on the valstep grid)
ClubSliderValues(name) ==
    CASE name = "x0"    -> {Real(1, 2), Real(2, 10), Real(81, 100)}
      [] name = "y0"    -> {Real(1, 2), Real(9, 10), 0}
      [] name = "t_end" -> {Real(10, 1), Real(40, 1), Real(1, 1)}
      [] OTHER          -> {}

\* values the sliders of player_strategy.py take
PlayerSliderValues(name) ==
    CASE name = "a0"    -> {Real(25, 10), Real(5, 1), Real(1, 10)}
      [] name = "d0"    -> {Real(2, 1), Real(1, 10), Real(5, 1)}
      [] name = "b"     -> {Real(14, 10), Real(3, 1), Real(1, 10)}
      [] name = "pGrow" -> {Real(1, 1), Real(10, 1), Real(1, 10)}
      [] name = "mGrow" -> {Real(5, 1), Real(1, 10), Real(10, 1)}
      [] name = "x0"    -> {Real(6, 10), Real(95, 100), Real(5, 100)}
      [] name = "t_end" -> {Real(10, 1), Real(50, 1), Real(1, 1)}
      [] OTHER          -> {}

\* club_strategy.py, lines 64-87: the initial simulation and the first plot
ClubStartup ==
    /\ pc = "start"
    /\ prog = "club"
    /\ traj' = Simulate(params)
    /\ outcome' = "trajectory"
    /\ calls' = calls + 1
    /\ plotted' = traj'
    /\ pc' = "idle"
    /\ UNCHANGED <<prog, mode, payoffs, params, sliders, changes, saved, xform>>

\* update(val) calling the engine without copying the sliders into params
ClubUpdateStale(name, v) ==
    /\ pc = "idle"
    /\ prog = "club"
    /\ changes < MaxChanges
    /\ v # sliders[name]
    /\ sliders' = [sliders EXCEPT ![name] = v]
    /\ changes' = changes + 1
    /\ traj' = Simulate(params)
    /\ outcome' = "trajectory"
    /\ calls' = calls + 1
    /\ plotted' = traj'
    /\ UNCHANGED <<prog, mode, payoffs, params, saved, xform, pc>>

\* club_strategy.py: a slider moves to v and calls update(val), lines 100-131: params is
\* refreshed from every slider, the engine runs, the axes are cleared and plotted anew
ClubUpdate(name, v) ==
    /\ pc = "idle"
    /\ prog = "club"
    /\ changes < MaxChanges
    /\ v # sliders[name]
    /\ sliders' = [sliders EXCEPT ![name] = v]
    /\ changes' = changes + 1
    /\ params' = [n \in DOMAIN params |-> sliders'[n]]
    /\ traj' = Simulate(params')
    /\ outcome' = "trajectory"
    /\ calls' = calls + 1
    /\ plotted' = traj'
    /\ UNCHANGED <<prog, mode, payoffs, saved, xform, pc>>

\* player_strategy.py, lines 49-69: the initial solution and the first plot
PlayerStartup ==
    /\ pc = "start"
    /\ prog = "player"
    /\ traj' = SolveOde(params)
    /\ outcome' = "trajectory"
    /\ calls' = calls + 1
    /\ plotted' = traj'
    /\ pc' = "idle"
    /\ UNCHANGED <<prog, mode, payoffs, params, sliders, changes, saved, xform>>

\* player_strategy.py: a slider moves to v and calls update(val), lines 89-114
PlayerUpdate(name, v) ==
    /\ pc = "idle"
    /\ prog = "player"
    /\ changes < MaxChanges
    /\ v # sliders[name]
    /\ sliders' = [sliders EXCEPT ![name] = v]
    /\ changes' = changes + 1
    /\ params' = [n \in DOMAIN params |-> sliders'[n]]
    /\ traj' = SolveOde(params')
    /\ outcome' = "trajectory"
    /\ calls' = calls + 1
    /\ plotted' = traj'
    /\ UNCHANGED <<prog, mode, payoffs, saved, xform, pc>>

-----------------------------------------------------------------------------
(* Runs compared by the symmetry property: the table with roles swapped *)

OtherStrategy(s) == IF s = "Youth" THEN "Star" ELSE "Youth"

\* Saudi and Europe exchanged: the key's two positions and the payoff pair's two positions
SwapPopulations(P) ==
    [k \in Strategies \X Strategies |-> <<P[<<k[2], k[1]>>][2], P[<<k[2], k[1]>>][1]>>]

\* Youth and Star exchanged, for both populations
SwapStrategies(P) ==
    [k \in Strategies \X Strategies |-> P[<<OtherStrategy(k[1]), OtherStrategy(k[2])>>]]

Transformed(kind, P) ==
    IF kind = "populations" THEN SwapPopulations(P) ELSE SwapStrategies(SwapPopulations(P))

\* the original run has returned: keep its trajectory, install the transformed table,
\* swap x0 and y0; simulate is then called again
Transform(kind) ==
    /\ pc = "returned"
    /\ mode = "direct"
    /\ prog = "club"
    /\ xform = "none"
    /\ saved' = traj
    /\ payoffs' = Transformed(kind, payoffs)
    /\ params' = [params EXCEPT !.x0 = params.y0, !.y0 = params.x0]
    /\ xform' = kind
    /\ pc' = "call"
    /\ UNCHANGED <<prog, mode, sliders, traj, outcome, plotted, calls, changes>>

-----------------------------------------------------------------------------
(* Inputs *)

\* Star strictly dominates Youth for both populations
DominantPayoffs == Table(<<3, 3>>, <<1, 4>>, <<4, 1>>, <<2, 2>>)

\* no symmetry between the populations, a negative payoff
SkewPayoffs == Table(<<2, -1>>, <<0, 3>>, <<5, 1>>, <<1, 4>>)

Tables == {BuiltinPayoffs, DominantPayoffs, SkewPayoffs}

\* x0 and y0 in hundredths, t_end in whole years
ClubParams(x0, y0, t_end) ==
    [x0 |-> Real(x0, 100), y0 |-> Real(y0, 100), t_end |-> Real(t_end, 1)]

\* in-range initial values with short, long and very long horizons (dt up to 2); values
\* outside [0,1]; the horizon 0
ClubInputs ==
    { ClubParams(x0, y0, t_end) :
        x0 \in {0, 30, 50, 100}, y0 \in {0, 50, 70, 100}, t_end \in {10, 2000} }
    \cup { ClubParams(p[1], p[2], p[3]) :
        p \in {<<99, 1, 40>>, <<1, 20, 1>>, <<30, 20, 40>>, <<60, 20, 2000>>,
               <<100, 0, 1>>, <<0, 100, 40>>} }
    \cup { ClubParams(p[1], p[2], t_end) :
        p \in {<<150, -50>>, <<-20, 50>>, <<50, 120>>, <<110, 110>>, <<-100, 30>>},
        t_end \in {1, 10} }
    \cup { ClubParams(p[1], p[2], 0) : p \in {<<20, 20>>, <<0, 100>>, <<50, 50>>} }

\* coefficients in hundredths
PlayerParams(c, x0, t_end) ==
    [a0 |-> Real(c[1], 100), d0 |-> Real(c[2], 100), b |-> Real(c[3], 100),
     pGrow |-> Real(c[4], 100), mGrow |-> Real(c[5], 100),
     x0 |-> Real(x0, 100), t_end |-> Real(t_end, 1)]

\* coefficient tuples inside the sliders' ranges: the defaults and corners of the ranges
SliderCoefficients ==
    {<<250, 200, 140, 100, 500>>, <<500, 10, 10, 1000, 10>>, <<10, 500, 10, 10, 1000>>,
     <<500, 500, 500, 1000, 1000>>, <<10, 10, 500, 10, 10>>, <<500, 10, 500, 1000, 10>>,
     <<10, 500, 500, 10, 1000>>, <<500, 500, 10, 1000, 1000>>}

\* coefficient tuples outside the sliders' ranges
OtherCoefficients == {<<-300, 800, 0, 2000, -1500>>, <<0, 0, 0, 0, 0>>}

\* the sliders' ranges; the fixed points with any coefficients and a very long horizon;
\* the horizon 0
PlayerInputs ==
    { PlayerParams(c, x0, t_end) :
        c \in SliderCoefficients, x0 \in {0, 5, 30, 50, 60, 95, 100}, t_end \in {1, 10, 50} }
    \cup { PlayerParams(c, x0, t_end) :
        c \in SliderCoefficients \cup OtherCoefficients, x0 \in {0, 100}, t_end \in {2000} }
    \cup { PlayerParams(c, x0, 0) : c \in {<<250, 200, 140, 100, 500>>}, x0 \in {0, 60} }

InitCommon ==
    /\ sliders = params
    /\ traj = NoTrajectory
    /\ outcome = "none"
    /\ plotted = NoTrajectory
    /\ calls = 0
    /\ changes = 0
    /\ saved = NoTrajectory
    /\ xform = "none"

\* simulate(params) about to be called on a given table with given parameters
InitClub ==
    /\ prog = "club"
    /\ mode = "direct"
    /\ payoffs \in Tables
    /\ params \in ClubInputs
    /\ pc = "call"
    /\ InitCommon

\* solve_ode(params) about to be called with given parameters
InitPlayer ==
    /\ prog = "player"
    /\ mode = "direct"
    /\ payoffs = BuiltinPayoffs
    /\ params \in PlayerInputs
    /\ pc = "call"
    /\ InitCommon

\* either script started: the params dict as written, every slider at its valinit
InitUI ==
    /\ prog \in {"club", "player"}
    /\ mode = "ui"
    /\ payoffs = BuiltinPayoffs
    /\ params = IF prog = "club" THEN ClubDefaults ELSE PlayerDefaults
    /\ pc = "start"
    /\ InitCommon

\* the original runs of the symmetry comparison
InitSym ==
    /\ prog = "club"
    /\ mode = "direct"
    /\ payoffs \in Tables
    /\ params \in { ClubParams(x0, y0, t_end) :
                      x0 \in {20, 50, 90}, y0 \in {30, 50, 65}, t_end \in {10, 40, 2000} }
    /\ pc = "call"
    /\ InitCommon

Init == InitClub \/ InitPlayer

Next == CallSimulate \/ CallSolveOde

NextClub == CallSimulate

NextPlayer == CallSolveOde

\* club_strategy.py, lines 133-134: slider.on_changed(update); some slider moves
ClubSliderChanged ==
    \E name \in DOMAIN sliders : \E v \in ClubSliderValues(name) : ClubUpdate(name, v)

\* player_strategy.py, lines 116-117: slider.on_changed(update); some slider moves
PlayerSliderChanged ==
    \E name \in DOMAIN sliders : \E v \in PlayerSliderValues(name) : PlayerUpdate(name, v)

NextUI == ClubStartup \/ PlayerStartup \/ ClubSliderChanged \/ PlayerSliderChanged

NextSym == CallSimulate \/ \E kind \in {"populations", "both"} : Transform(kind)

\* both engines, called directly
Spec == Init /\ [][Next]_vars

SpecClub == InitClub /\ [][NextClub]_vars

SpecPlayer == InitPlayer /\ [][NextPlayer]_vars

SpecUI == InitUI /\ [][NextUI]_vars

SpecSym == InitSym /\ [][NextSym]_vars

-----------------------------------------------------------------------------
(* Properties *)

InUnit(v) == 0 <= v /\ v <= One

Last == NSamples - 1

\* an engine call on the original table has returned its trajectory
Returned(which) == prog = which /\ mode = "direct" /\ pc = "returned" /\ xform = "none"

\* scenario 1: the club engine on the built-in table with x0 = y0 = 0.5, t_end = 10
Scenario1 == Returned("club") /\ payoffs = BuiltinPayoffs /\ params = ClubDefaults

\* C1 as stated: in scenario 1 the returned trajectory has x[999] < x[0].
C1_LastBelowFirst ==
    Scenario1 => traj.x[Last] < traj.x[0]

\* C1 amended: in scenario 1 the trajectory rests at (0.5, 0.5): every sample x[i] and
\* y[i] equals 0.5, so x[999] = x[0] (the built-in table has no dominant strategy; at
\* y = 0.5 Youth and Star pay Saudi the same, 3).
C1_RestsAtHalf ==
    Scenario1 =>
        \A k \in Idx : traj.x[k] = Real(1, 2) /\ traj.y[k] = Real(1, 2) /\ traj.x[k] = traj.x[0]

C1_Witness ==
    /\ Scenario1
    /\ traj.t[Last] = Real(10, 1)
    /\ traj.t[1] > 0
    /\ traj.x[Last] = traj.x[0]

\* C2: club engine, t_end > 0: with x0, y0 in [0,1] every sample x[i], y[i] is in [0,1];
\* with x0 or y0 outside [0,1] every sample written by an update step (i >= 1) is in [0,1].
C2_Clamped ==
    (prog = "club" /\ pc = "returned" /\ params.t_end > 0) =>
        \A k \in Idx :
            (k >= 1 \/ (InUnit(params.x0) /\ InUnit(params.y0))) =>
                InUnit(traj.x[k]) /\ InUnit(traj.y[k])

\* the Euler value of x at index k, before clamping
UnclampedX(k) ==
    traj.x[k - 1] + Mul(ClubDynamics(traj.x[k - 1], traj.y[k - 1]).dx, traj.t[1] - traj.t[0])

\* a run from in-range initial values in which an Euler value fell below 0 and was clamped
C2_Witness ==
    /\ Returned("club")
    /\ InUnit(params.x0) /\ InUnit(params.y0)
    /\ \E k \in 1 .. Last : UnclampedX(k) < 0 /\ traj.x[k] = 0

\* C3: an engine invoked with t_end = 0 ends in a configuration error and returns no
\* trajectory.
C3_ZeroHorizonFails ==
    (mode = "direct" /\ pc = "returned" /\ params.t_end = 0) =>
        outcome = "error" /\ traj = NoTrajectory

\* C4: club simulate called with x0 or y0 outside [0,1] ends in an error and returns no
\* trajectory; the value is not stored as x[0] / y[0].
C4_OutOfRangeRejected ==
    (Returned("club") /\ ~(InUnit(params.x0) /\ InUnit(params.y0))) =>
        outcome = "error" /\ traj = NoTrajectory

\* C5: club engine, any table, t_end > 0, x0 in {0,1} and y0 in {0,1}: every sample has
\* x[i] = x0 and y[i] = y0.
C5_BoundaryFixed ==
    (/\ Returned("club")
     /\ params.t_end > 0
     /\ params.x0 \in {0, One}
     /\ params.y0 \in {0, One}) =>
        \A k \in Idx : traj.x[k] = params.x0 /\ traj.y[k] = params.y0

C5_Witness ==
    /\ Returned("club")
    /\ payoffs = SkewPayoffs
    /\ params.x0 = 0 /\ params.y0 = One
    /\ traj.t[1] > One
    /\ traj.x[Last] = 0 /\ traj.y[Last] = One

\* C6: player engine, any coefficients, t_end > 0, x0 in {0,1}: dx = 0 at every sample and
\* every sample has x[i] = x0.
C6_PlayerFixed ==
    (Returned("player") /\ params.t_end > 0 /\ params.x0 \in {0, One}) =>
        \A k \in Idx : traj.x[k] = params.x0 /\ Evaluate(traj.x[k], params).dx = 0

C6_Witness ==
    /\ Returned("player")
    /\ params.x0 = 0
    /\ params.a0 < 0
    /\ traj.t[1] > One
    /\ traj.x[Last] = 0
    /\ traj.fP[Last] # traj.fM[Last]

\* C7 as stated: the second run uses the table with Saudi/Europe exchanged and Youth/Star
\* exchanged, and x0, y0 swapped; then y[i] of the second run equals x[i] of the first
\* (taken here up to 0.001, so that no rounding of a product accounts for a difference).
C7_BothRolesSwapped ==
    (xform = "both" /\ pc = "returned") =>
        \A k \in Idx : /\ traj.y[k] - saved.x[k] <= Real(1, 1000)
                       /\ saved.x[k] - traj.y[k] <= Real(1, 1000)

\* C7 amended: the second run uses the table with Saudi and Europe exchanged (the two
\* positions of each key and of each payoff pair; Youth and Star keep their meaning), and
\* x0, y0 swapped; then y[i] of the second run equals x[i] of the first.
C7_PopulationsSwapped ==
    (xform = "populations" /\ pc = "returned") =>
        \A k \in Idx : traj.y[k] = saved.x[k]

C7_Witness ==
    /\ xform = "populations"
    /\ pc = "returned"
    /\ payoffs = SwapPopulations(SkewPayoffs)
    /\ payoffs # SkewPayoffs
    /\ saved.x[Last] # saved.x[0]
    /\ saved.x[Last] # saved.y[Last]
    /\ traj.y[Last] = saved.x[Last]

\* the plotted arrays are the Euler trajectory of the sliders' current values
PlottedFromSliders ==
    LET h == plotted.t[1] - plotted.t[0]
    IN  /\ plotted.t = Linspace(sliders.t_end)
        /\ plotted.t[0] = 0
        /\ plotted.x[0] = sliders.x0
        /\ IF prog = "club"
           THEN /\ plotted.y[0] = sliders.y0
                /\ \A k \in 1 .. Last :
                      LET r == ClubDynamics(plotted.x[k-1], plotted.y[k-1])
                      IN  /\ plotted.x[k] = Clip(plotted.x[k-1] + Mul(r.dx, h), 0, One)
                          /\ plotted.y[k] = Clip(plotted.y[k-1] + Mul(r.dy, h), 0, One)
           ELSE /\ \A k \in 1 .. Last :
                      plotted.x[k] = plotted.x[k-1] + Mul(Evaluate(plotted.x[k-1], sliders).dx, h)
                /\ \A k \in Idx :
                      LET r == Evaluate(plotted.x[k], sliders)
                      IN  /\ plotted.fP[k] = r.fP /\ plotted.fM[k] = r.fM
                          /\ plotted.a[k] = r.a /\ plotted.d[k] = r.d

\* C8: whenever the first plot or an update callback has finished, params holds every
\* slider's value, the plotted trajectory is the engine's trajectory for those values from
\* t = 0 with x[0] = x0 (y[0] = y0) through all NSamples samples, and the engine was
\* invoked once per slider change (and once at startup).
C8_FullRecompute ==
    pc = "idle" =>
        /\ \A n \in DOMAIN params : params[n] = sliders[n]
        /\ calls = changes + 1
        /\ outcome = "trajectory"
        /\ plotted = traj
        /\ PlottedFromSliders

\* after two changes: the time horizon and x0 both differ from the first plot's
C8_Witness ==
    /\ pc = "idle"
    /\ changes = 2
    /\ sliders.t_end # Real(10, 1)
    /\ sliders.x0 \notin {ClubDefaults.x0, PlayerDefaults.x0}
    /\ plotted.x[0] = sliders.x0
    /\ plotted.t[Last] = sliders.t_end
    /\ plotted.x[Last] # plotted.x[0]

\* C9: in the trajectory solve_ode returns, at every index i (the last included)
\* a[i] = a0 + pGrow*x[i], d[i] = d0 + mGrow*(1 - x[i]), fP[i] = a[i]*x[i] + b*(1 - x[i]),
\* fM[i] = b*x[i] + d[i]*(1 - x[i]).
C9_RecordedSeries ==
    Returned("player") =>
        \A k \in Idx :
            /\ traj.a[k] = params.a0 + Mul(params.pGrow, traj.x[k])
            /\ traj.d[k] = params.d0 + Mul(params.mGrow, One - traj.x[k])
            /\ traj.fP[k] = Mul(traj.a[k], traj.x[k]) + Mul(params.b, One - traj.x[k])
            /\ traj.fM[k] = Mul(params.b, traj.x[k]) + Mul(traj.d[k], One - traj.x[k])

\* a returned trajectory that still moves at its end: the last payoffs are set and differ
\* from those of the sample before
C9_Witness ==
    /\ Returned("player")
    /\ traj.x[Last] # traj.x[Last - 1]
    /\ traj.fP[Last] # 0
    /\ traj.fP[Last] # traj.fP[Last - 1]
    /\ traj.fM[Last] # traj.fM[Last - 1]
    /\ traj.a[Last] # traj.a[Last - 1]
    /\ traj.d[Last] # traj.d[Last - 1]

\* the parameter values the player script's sliders can produce
SliderRange(p) ==
    /\ Real(1, 10) <= p.a0 /\ p.a0 <= Real(5, 1)
    /\ Real(1, 10) <= p.d0 /\ p.d0 <= Real(5, 1)
    /\ Real(1, 10) <= p.b /\ p.b <= Real(5, 1)
    /\ Real(1, 10) <= p.pGrow /\ p.pGrow <= Real(10, 1)
    /\ Real(1, 10) <= p.mGrow /\ p.mGrow <= Real(10, 1)
    /\ InUnit(p.x0)
    /\ Real(1, 1) <= p.t_end /\ p.t_end <= Real(50, 1)

\* C10: player engine with parameters in the sliders' ranges: every sample x[i] is in
\* [0,1], although no step is clamped.
C10_StaysInUnit ==
    (Returned("player") /\ SliderRange(params)) =>
        \A k \in Idx : InUnit(traj.x[k])

\* the strongest upward push the sliders allow, with the largest dt: x rises from 0.95
\* to within 0.01 of 1
C10_Witness ==
    /\ Returned("player")
    /\ SliderRange(params)
    /\ params.t_end = Real(50, 1)
    /\ params.a0 = Real(5, 1) /\ params.pGrow = Real(10, 1) /\ params.b = Real(1, 10)
    /\ params.x0 = Real(95, 100)
    /\ traj.x[Last] > Real(99, 100)

=============================================================================
